---- MODULE Spec2Model ----
(***************************************************************************)
(* Resilience layer of connector-framework:                                *)
(*   - ConnectionPool   (src/performance/connection-pool.ts)               *)
(*   - CircuitBreaker   (src/error-handling/circuit-breaker.ts)            *)
(* Every promise continuation of the TypeScript code is one action: the    *)
(* code between two awaits runs without interleaving on the event loop.    *)
(***************************************************************************)
EXTENDS Integers, Sequences, FiniteSets, TLC

\* ------------------------------------------------------------------------
\* Bounds and configuration
\* ------------------------------------------------------------------------
\* callers of the pool, each making one acquire() and one release()
MaxReq == 3
\* further acquire() calls made by callers that come back (PoolReuseSpec only)
MaxReuse == 1
\* dispatches fed to the two circuits side by side (PairSpec only)
MaxPairs == 4
\* overlapping runs of the idle-cleanup interval callback
MaxCleanup == 1
\* ConnectionPoolConfig.minConnections / maxConnections (Scenario B: 1 and 2)
minConnections == 1
maxConnections == 2

\* concurrent callers of CircuitBreaker.execute
MaxCalls == 2
\* last value of the clock
MaxTime == 6
\* CircuitBreakerConfig
failureThreshold == 2
recoveryTimeout == 2
successThreshold == 2

\* executeOperation calls made on one operation id
MaxDisp == 3
\* executeOperation calls in flight at a time
MaxSlots == 1
\* largest options.retries
MaxRetries == 2
\* last value of the clock in runs of the executor
ExMaxTime == 3
\* OperationExecutor.defaultCircuitBreakerConfig, scaled down: the source
\* fixes failureThreshold 5 and recoveryTimeout 30000 ms
exFailureThreshold == 2
exRecoveryTimeout == 2
\* the 1000 ms base of applyRetryBackoff: one unit of the clock
BackoffBase == 1
\* RateLimitConfig, scaled down (the defaults are 100, 60000 ms and 300000 ms)
maxRequests == 2
windowMs == 3
blockDuration == 1
\* calls made on the limiter, and the last value of its clock
MaxLimOps == 6
MaxLimTime == 4
\* CacheManagerConfig, scaled down (the defaults are 1000 entries and 300000 ms)
maxEntries == 2
defaultTTL == 2
\* calls made on the cache, and the last value of its clock
MaxCacheOps == 4
CacheMaxTime == 2
\* listeners that subscribe to one event, and operations that emit it
MaxListeners == 2
MaxEmOps == 2

Reqs == 1..MaxReq
NoConn == 0
Disps == 1..MaxSlots
Strategies == {"linear", "exponential", "custom"}
Calls == 1..MaxCalls
Ids == {"a", "b"}
LimStrategies == {"block", "drop", "queue"}
\* RateLimitEntry.blockedUntil when it was never set (undefined)
Unset == 0
\* cache keys: the empty string, a plain key, and JSON.stringify of the
\* argument lists [undefined] and [null]
CacheKeys == {"", "k", "[null]"}
CacheValues == {"v1", "v2"}
\* arguments the memoized function is called with
FnArgs == {"undefined", "null"}
Lsn == 1..MaxListeners
\* the ttl argument of set; an omitted ttl and ttl 0 are both falsy
NoTTL == 0
TTLs == {NoTTL, 1}
\* the history counter consec saturates just above the threshold
ConsecCap == failureThreshold + 1

VARIABLES
  \* ---- ConnectionPool ----
  availableConnections,  \* T[]: idle connections, oldest first
  activeConnections,     \* T[]: connections the pool counts as checked out
  pendingRequests,       \* resolve callbacks of waiting acquires, oldest first
  fillPending,           \* createNewConnection calls of the initial fill awaiting the factory
  fillFailed,            \* history: a factory call of the initial fill rejected
  nextId,                \* id the connection factory hands out next
  closed,                \* connections on which close() has been called
  cleaning,              \* cleanupIdleConnections runs suspended in await close()
  closing,               \* position of the call of close(): "no" before it is made
  reuse,                 \* number of times a caller has come back for another acquire
  pc,                    \* position of each acquire/release caller
  held,                  \* connection each caller was given (NoConn if none)
  \* ---- history of the pool, for the ordering claims ----
  stamp,                 \* logical clock of enqueue events
  availSince,            \* stamp at which each entry of availableConnections was pushed
  waitSince,             \* stamp at which each caller was pushed on pendingRequests
  \* ---- CircuitBreaker ----
  state,                 \* CircuitState
  failures,              \* number of consecutive failures
  successes,             \* number of consecutive successes
  lastStateChange,       \* timestamp of the last state change
  now,                   \* Date.now()
  callPc,                \* position / last result of each execute() caller
  \* ---- history of the circuit breaker ----
  admittedIn,            \* circuit state in which each running call was admitted
  consec,                \* length of the run of failures that ends the recorded outcomes
  cause,                 \* what made the last state change
  \* ---- OperationExecutor, for one operation id ----
  exState,               \* circuitBreakers.get(id).state, "absent" without an entry
  exFailureCount,        \* circuitBreakers.get(id).failureCount
  exLastFailureTime,     \* circuitBreakers.get(id).lastFailureTime
  tracker,               \* executionTrackers.get(id): the three counters
  optRetries,            \* options.retries the caller passes
  optStrategy,           \* options.retryStrategy the caller passes
  disp,                  \* the executeOperation call of each caller: loop state and result
  issued,                \* number of executeOperation calls made so far
  \* ---- history of the executor ----
  exConsec,              \* length of the run of failed dispatches that ends the outcomes
  exLastFailAt,          \* time at which the last failed dispatch was recorded
  \* ---- RateLimiter ----
  limitEntries,          \* Map<string, RateLimitEntry>, present = FALSE without an entry
  limNow,                \* Date.now() as the limiter reads it
  \* ---- history of the limiter ----
  limOp,                 \* the last call made on the limiter and what it returned
  limSteps,              \* number of calls made on the limiter
  hist,                  \* per identifier: isAllowed calls since its entry was created
  admits,                \* per identifier: times of the admissions of the last windowMs
  \* ---- CacheManager ----
  cache,                 \* Map<string, CacheEntry>: the entries in insertion order
  cacheNow,              \* Date.now() as the cache reads it
  cacheHung,             \* a call of set is looping for ever in enforceMaxEntries
  \* ---- history of the cache ----
  cacheOp,               \* the last call made on the cache and what it returned
  cacheSteps,            \* number of calls made on the cache
  lastSet,               \* per key in the cache: the value of the last set
  fnCalls,               \* per argument: invocations of the memoized function
  \* ---- EventEmitter, for one event name, and the operation that emits it ----
  emListeners,           \* listeners.get(event): the Set in insertion order
  emStarted,             \* calls of operation.execute made after the event was emitted
  \* ---- history of the emitter ----
  emInvoked,             \* per listener: number of times it was called
  emOps,                 \* number of attempts that emitted the event
  emLast,                \* the last emit: listeners called, listeners that threw, outcome
  \* ---- a CircuitBreaker and the executor's circuit fed the same dispatches ----
  pair                   \* verdicts of the two on the last dispatch, dispatches made, phase

poolVars == <<availableConnections, activeConnections, pendingRequests, fillPending,
              fillFailed, closing, reuse, nextId, closed, cleaning, pc, held, stamp, availSince,
              waitSince>>

cbVars == <<state, failures, successes, lastStateChange, now, callPc, admittedIn,
            consec, cause>>

\* the CircuitBreaker without the clock
cbNoClock == <<state, failures, successes, lastStateChange, callPc, admittedIn,
               consec, cause>>

exVars == <<exState, exFailureCount, exLastFailureTime, tracker, optRetries,
            optStrategy, disp, issued, exConsec, exLastFailAt>>

limVars == <<limitEntries, limNow, limOp, limSteps, hist, admits>>

cacheVars == <<cache, cacheNow, cacheHung, cacheOp, cacheSteps, lastSet, fnCalls>>

emVars == <<emListeners, emStarted, emInvoked, emOps, emLast>>

pairVars == <<pair>>

\* everything that is not part of the ConnectionPool
notPool == <<cbVars, exVars, limVars, cacheVars, emVars, pairVars>>
\* everything that is not part of the CircuitBreaker
notCB == <<poolVars, exVars, limVars, cacheVars, emVars, pairVars>>
\* everything but the clock that is not part of the OperationExecutor
notEx == <<poolVars, cbNoClock, limVars, cacheVars, emVars, pairVars>>
\* everything that is not part of the RateLimiter
notLim == <<poolVars, cbVars, exVars, cacheVars, emVars, pairVars>>
\* everything that is not part of the CacheManager
notCache == <<poolVars, cbVars, exVars, limVars, emVars, pairVars>>
\* everything that is not part of the EventEmitter
notEm == <<poolVars, cbVars, exVars, limVars, cacheVars, pairVars>>

vars == <<poolVars, cbVars, exVars, limVars, cacheVars, emVars, pairVars>>

\* ------------------------------------------------------------------------
\* Array helpers
\* ------------------------------------------------------------------------
\* Array.prototype.indexOf: first index holding x, 0 when absent
IndexOf(s, x) ==
  IF \E i \in 1..Len(s) : s[i] = x
  THEN CHOOSE i \in 1..Len(s) : s[i] = x /\ \A j \in 1..(i-1) : s[j] # x
  ELSE 0

\* splice(index, 1)
SpliceOut(s, i) == [j \in 1..(Len(s)-1) |-> IF j < i THEN s[j] ELSE s[j+1]]

\* const i = s.indexOf(x); if (i !== -1) s.splice(i, 1)
RemoveFirst(s, x) == IF IndexOf(s, x) = 0 THEN s ELSE SpliceOut(s, IndexOf(s, x))

\* Array.prototype.pop: the array without its last element
PopLast(s) == SubSeq(s, 1, Len(s) - 1)

Range(s) == {s[i] : i \in 1..Len(s)}

\* ------------------------------------------------------------------------
\* ConnectionPool
\* ------------------------------------------------------------------------
PoolInit ==
  /\ availableConnections = <<>>
  /\ activeConnections = <<>>
  /\ pendingRequests = <<>>
  /\ fillPending = minConnections
  /\ fillFailed = FALSE
  /\ closing = "no"
  /\ reuse = 0
  /\ nextId = 1
  /\ closed = {}
  /\ cleaning = 0
  /\ pc = [r \in Reqs |-> "idle"]
  /\ held = [r \in Reqs |-> NoConn]
  /\ stamp = 0
  /\ availSince = <<>>
  /\ waitSince = [r \in Reqs |-> 0]

canCreateNewConnection ==
  Len(activeConnections) + Len(availableConnections) < maxConnections

\* getAvailableConnection taking the newest idle connection (pop instead of shift)
getAvailableConnection_Pop(r) ==
  /\ availableConnections # <<>>
  /\ availableConnections' = PopLast(availableConnections)
  /\ availSince' = PopLast(availSince)
  /\ activeConnections' = Append(activeConnections,
                                 availableConnections[Len(availableConnections)])
  /\ held' = [held EXCEPT ![r] = availableConnections[Len(availableConnections)]]
  /\ pc' = [pc EXCEPT ![r] = "holding"]
  /\ UNCHANGED <<pendingRequests, fillPending, fillFailed, closing, reuse, nextId, closed, cleaning, stamp, waitSince>>
  /\ UNCHANGED notPool

\* getAvailableConnection as called by acquire: shift() the first idle
\* connection and push it on activeConnections
getAvailableConnection(r) ==
  /\ availableConnections # <<>>
  /\ availableConnections' = Tail(availableConnections)
  /\ availSince' = Tail(availSince)
  /\ activeConnections' = Append(activeConnections, Head(availableConnections))
  /\ held' = [held EXCEPT ![r] = Head(availableConnections)]
  /\ pc' = [pc EXCEPT ![r] = "holding"]
  /\ UNCHANGED <<pendingRequests, fillPending, fillFailed, closing, reuse, nextId, closed, cleaning, stamp, waitSince>>
  /\ UNCHANGED notPool

\* acquire -> createNewConnection up to its await of the factory
AcquireCreate(r) ==
  /\ availableConnections = <<>>
  /\ canCreateNewConnection
  /\ pc' = [pc EXCEPT ![r] = "creating"]
  /\ UNCHANGED <<availableConnections, activeConnections, pendingRequests, fillPending, fillFailed, closing, reuse,
                 nextId, closed, cleaning, held, stamp, availSince, waitSince>>
  /\ UNCHANGED notPool

\* acquire -> waitForConnection: push resolve on pendingRequests, arm the timer
waitForConnection(r) ==
  /\ availableConnections = <<>>
  /\ ~canCreateNewConnection
  /\ pendingRequests' = Append(pendingRequests, r)
  /\ pc' = [pc EXCEPT ![r] = "waiting"]
  /\ stamp' = stamp + 1
  /\ waitSince' = [waitSince EXCEPT ![r] = stamp + 1]
  /\ UNCHANGED <<availableConnections, activeConnections, fillPending, fillFailed, closing, reuse, nextId, closed,
                 cleaning, held, availSince>>
  /\ UNCHANGED notPool

\* acquire(): the synchronous part of one call
Acquire(r) ==
  /\ pc[r] = "idle"
  /\ \/ getAvailableConnection(r)
     \/ AcquireCreate(r)
     \/ waitForConnection(r)

\* createNewConnection after the factory resolved (called from acquire)
CreateDone(r) ==
  /\ pc[r] = "creating"
  /\ activeConnections' = Append(activeConnections, nextId)
  /\ nextId' = nextId + 1
  /\ held' = [held EXCEPT ![r] = nextId]
  /\ pc' = [pc EXCEPT ![r] = "holding"]
  /\ UNCHANGED <<availableConnections, pendingRequests, fillPending, fillFailed, closing, reuse, closed, cleaning,
                 stamp, availSince, waitSince>>
  /\ UNCHANGED notPool

\* the factory rejected: acquire rejects, the pool is left as it was
CreateFail(r) ==
  /\ pc[r] = "creating"
  /\ pc' = [pc EXCEPT ![r] = "failed"]
  /\ UNCHANGED <<availableConnections, activeConnections, pendingRequests, fillPending, fillFailed, closing, reuse,
                 nextId, closed, cleaning, held, stamp, availSince, waitSince>>
  /\ UNCHANGED notPool

\* an initial fill whose connections start idle, in availableConnections
FillDone_Idle ==
  /\ fillPending > 0
  /\ fillPending' = fillPending - 1
  /\ availableConnections' = Append(availableConnections, nextId)
  /\ stamp' = stamp + 1
  /\ availSince' = Append(availSince, stamp + 1)
  /\ nextId' = nextId + 1
  /\ UNCHANGED <<activeConnections, pendingRequests, fillFailed, closing, reuse, closed, cleaning, pc,
                 held, waitSince>>
  /\ UNCHANGED notPool

\* createNewConnection after the factory resolved (called from initializeMinConnections)
FillDone ==
  /\ fillPending > 0
  /\ fillPending' = fillPending - 1
  /\ UNCHANGED <<fillFailed, closing, reuse>>
  /\ activeConnections' = Append(activeConnections, nextId)
  /\ nextId' = nextId + 1
  /\ UNCHANGED <<availableConnections, pendingRequests, closed, cleaning, pc, held,
                 stamp, availSince, waitSince>>
  /\ UNCHANGED notPool

\* the factory rejected during the initial fill
FillFail ==
  /\ fillPending > 0
  /\ fillPending' = fillPending - 1
  /\ fillFailed' = TRUE
  /\ UNCHANGED <<closing, reuse, availableConnections, activeConnections, pendingRequests, nextId, closed,
                 cleaning, pc, held, stamp, availSince, waitSince>>
  /\ UNCHANGED notPool

\* a timer callback that deregisters the waiter but never rejects its promise
WaitTimeout_NoReject(r) ==
  /\ pc[r] = "waiting"
  /\ pendingRequests' = RemoveFirst(pendingRequests, r)
  /\ UNCHANGED <<availableConnections, activeConnections, fillPending, fillFailed, closing, reuse, nextId, closed,
                 cleaning, pc, held, stamp, availSince, waitSince>>
  /\ UNCHANGED notPool

\* a timer callback that rejects but leaves the resolve callback in the queue
WaitTimeout_KeepsEntry(r) ==
  /\ pc[r] = "waiting"
  /\ pc' = [pc EXCEPT ![r] = "timedout"]
  /\ UNCHANGED <<availableConnections, activeConnections, pendingRequests, fillPending, fillFailed, closing, reuse,
                 nextId, closed, cleaning, held, stamp, availSince, waitSince>>
  /\ UNCHANGED notPool

\* the setTimeout callback of waitForConnection. When the promise is already
\* resolved the callback finds no entry and reject() has no effect, so the
\* callback only acts while the caller is still waiting.
WaitTimeout(r) ==
  /\ pc[r] = "waiting"
  /\ pendingRequests' = RemoveFirst(pendingRequests, r)
  /\ pc' = [pc EXCEPT ![r] = "timedout"]
  /\ UNCHANGED <<availableConnections, activeConnections, fillPending, fillFailed, closing, reuse, nextId, closed,
                 cleaning, held, stamp, availSince, waitSince>>
  /\ UNCHANGED notPool

\* release() up to its await of connection.isValid()
Release(r) ==
  /\ pc[r] = "holding"
  /\ activeConnections' = RemoveFirst(activeConnections, held[r])
  /\ pc' = [pc EXCEPT ![r] = "validating"]
  /\ UNCHANGED <<availableConnections, pendingRequests, fillPending, fillFailed, closing, reuse, nextId, closed,
                 cleaning, held, stamp, availSince, waitSince>>
  /\ UNCHANGED notPool

\* resolvePendingRequest(connection): shift() the oldest resolve and call it.
\* Gives the caller states after the call; resolving a settled promise does nothing.
resolvePendingRequest(conn, pcNow, heldNow) ==
  IF pendingRequests = <<>>
  THEN /\ pendingRequests' = pendingRequests
       /\ pc' = pcNow
       /\ held' = heldNow
  ELSE LET w == Head(pendingRequests) IN
       /\ pendingRequests' = Tail(pendingRequests)
       /\ IF pcNow[w] = "waiting"
          THEN /\ pc' = [pcNow EXCEPT ![w] = "holding"]
               /\ held' = [heldNow EXCEPT ![w] = conn]
          ELSE /\ pc' = pcNow
               /\ held' = heldNow

\* release() after isValid() resolved true: push on availableConnections,
\* then resolve a pending request with the same connection
ReleaseValid(r) ==
  /\ pc[r] = "validating"
  /\ availableConnections' = Append(availableConnections, held[r])
  /\ stamp' = stamp + 1
  /\ availSince' = Append(availSince, stamp + 1)
  /\ resolvePendingRequest(held[r], [pc EXCEPT ![r] = "released"],
                           [held EXCEPT ![r] = NoConn])
  /\ UNCHANGED <<activeConnections, fillPending, fillFailed, closing, reuse, nextId, closed, cleaning, waitSince>>
  /\ UNCHANGED notPool

\* release() after isValid() resolved false or threw: connection.close()
ReleaseInvalid(r) ==
  /\ pc[r] = "validating"
  /\ closed' = closed \cup {held[r]}
  /\ pc' = [pc EXCEPT ![r] = "released"]
  /\ held' = [held EXCEPT ![r] = NoConn]
  /\ UNCHANGED <<availableConnections, activeConnections, pendingRequests, fillPending, fillFailed, closing, reuse,
                 nextId, cleaning, stamp, availSince, waitSince>>
  /\ UNCHANGED notPool

\* release() after isValid() resolved false or threw, when connection.close()
\* rejects too: the rejection leaves release() and reaches the releasing caller
ReleaseCloseFails(r) ==
  /\ pc[r] = "validating"
  /\ pc' = [pc EXCEPT ![r] = "release_failed"]
  /\ held' = [held EXCEPT ![r] = NoConn]
  /\ UNCHANGED <<availableConnections, activeConnections, pendingRequests, fillPending,
                 fillFailed, closing, reuse, nextId, closed, cleaning, stamp, availSince, waitSince>>
  /\ UNCHANGED notPool

\* one evaluation of the while loop of cleanupIdleConnections: pop and close
\* one connection and suspend, or leave the loop
cleanupIdleConnections(resumed) ==
  IF Len(availableConnections) > minConnections
  THEN /\ availableConnections' = PopLast(availableConnections)
       /\ availSince' = PopLast(availSince)
       /\ closed' = closed \cup {availableConnections[Len(availableConnections)]}
       /\ cleaning' = IF resumed THEN cleaning ELSE cleaning + 1
  ELSE /\ cleaning' = IF resumed THEN cleaning - 1 ELSE cleaning
       /\ UNCHANGED <<availableConnections, availSince, closed>>

\* the setInterval callback of startCleanupInterval
CleanupTick ==
  /\ closing = "no"
  /\ cleaning < MaxCleanup
  /\ cleanupIdleConnections(FALSE)
  /\ UNCHANGED <<activeConnections, pendingRequests, fillPending, fillFailed, closing, reuse, nextId, pc, held,
                 stamp, waitSince>>
  /\ UNCHANGED notPool

\* cleanupIdleConnections resumes after await connection.close()
CleanupResume ==
  /\ cleaning > 0
  /\ cleanupIdleConnections(TRUE)
  /\ UNCHANGED <<activeConnections, pendingRequests, fillPending, fillFailed, closing, reuse, nextId, pc, held,
                 stamp, waitSince>>
  /\ UNCHANGED notPool

\* close() up to its await of Promise.all: clearInterval, then close() is
\* called on every connection the two lists hold at this moment
CloseStart ==
  /\ closing = "no"
  /\ closed' = closed \cup Range(availableConnections) \cup Range(activeConnections)
  /\ closing' = IF availableConnections \o activeConnections = <<>>
                THEN "awaiting_none" ELSE "awaiting"
  /\ UNCHANGED <<availableConnections, activeConnections, pendingRequests, fillPending,
                 fillFailed, reuse, nextId, cleaning, pc, held, stamp, availSince, waitSince>>
  /\ UNCHANGED notPool

\* close() after Promise.all resolved: both lists are replaced by empty ones
CloseDone ==
  /\ closing \in {"awaiting", "awaiting_none"}
  /\ availableConnections' = <<>>
  /\ availSince' = <<>>
  /\ activeConnections' = <<>>
  /\ closing' = "done"
  /\ UNCHANGED <<pendingRequests, fillPending, fillFailed, reuse, nextId, closed, cleaning, pc,
                 held, stamp, waitSince>>
  /\ UNCHANGED notPool

\* one of the close() calls rejected: Promise.all rejects, close() rejects
\* before it clears the lists
CloseFails ==
  /\ closing = "awaiting"
  /\ closing' = "failed"
  /\ UNCHANGED <<availableConnections, activeConnections, pendingRequests, fillPending,
                 fillFailed, reuse, nextId, closed, cleaning, pc, held, stamp, availSince,
                 waitSince>>
  /\ UNCHANGED notPool

PoolNext ==
  \/ FillDone
  \/ FillFail
  \/ CleanupTick
  \/ CleanupResume
  \/ \E r \in Reqs :
       \/ Acquire(r)
       \/ CreateDone(r)
       \/ CreateFail(r)
       \/ WaitTimeout(r)
       \/ Release(r)
       \/ ReleaseValid(r)
       \/ ReleaseInvalid(r)
       \/ ReleaseCloseFails(r)

\* a caller whose acquire or release has settled calls acquire() again
Reacquire(r) ==
  /\ reuse < MaxReuse
  /\ pc[r] \in {"released", "timedout", "failed", "release_failed"}
  /\ pc' = [pc EXCEPT ![r] = "idle"]
  /\ reuse' = reuse + 1
  /\ UNCHANGED <<availableConnections, activeConnections, pendingRequests, fillPending,
                 fillFailed, closing, nextId, closed, cleaning, held, stamp, availSince,
                 waitSince>>
  /\ UNCHANGED notPool

\* the pool with callers that come back
PoolReuseNext ==
  \/ PoolNext
  \/ \E r \in Reqs : Reacquire(r)

\* the pool with one call of close()
PoolCloseNext ==
  \/ PoolNext
  \/ CloseStart
  \/ CloseDone
  \/ CloseFails

\* ------------------------------------------------------------------------
\* CircuitBreaker
\* ------------------------------------------------------------------------
CLOSED == "closed"
OPEN == "open"
HALF_OPEN == "half_open"

CBInit ==
  /\ state = CLOSED
  /\ failures = 0
  /\ successes = 0
  /\ lastStateChange = 0
  /\ now = 0
  /\ callPc = [c \in Calls |-> "idle"]
  /\ admittedIn = [c \in Calls |-> "none"]
  /\ consec = 0
  /\ cause = "init"

\* checkCircuitState letting a single probe through while HALF_OPEN
checkCircuitState_SingleProbe(c) ==
  IF state = OPEN
  THEN IF now - lastStateChange >= recoveryTimeout
       THEN /\ state' = HALF_OPEN
            /\ successes' = 0
            /\ failures' = 0
            /\ cause' = "probe"
            /\ callPc' = [callPc EXCEPT ![c] = "running"]
            /\ UNCHANGED lastStateChange
       ELSE /\ callPc' = [callPc EXCEPT ![c] = "rejected"]
            /\ UNCHANGED <<state, successes, failures, lastStateChange, cause>>
  ELSE /\ callPc' = [callPc EXCEPT ![c] =
                       IF state = HALF_OPEN /\ \E d \in Calls : callPc[d] = "running"
                       THEN "rejected" ELSE "running"]
       /\ UNCHANGED <<state, successes, failures, lastStateChange, cause>>

\* checkCircuitState with the recovery test written > instead of >=
checkCircuitState_Strict(c) ==
  IF state = OPEN
  THEN IF now - lastStateChange > recoveryTimeout
       THEN /\ state' = HALF_OPEN
            /\ successes' = 0
            /\ failures' = 0
            /\ cause' = "probe"
            /\ callPc' = [callPc EXCEPT ![c] = "running"]
            /\ UNCHANGED lastStateChange
       ELSE /\ callPc' = [callPc EXCEPT ![c] = "rejected"]
            /\ UNCHANGED <<state, successes, failures, lastStateChange, cause>>
  ELSE /\ callPc' = [callPc EXCEPT ![c] = "running"]
       /\ UNCHANGED <<state, successes, failures, lastStateChange, cause>>

\* checkCircuitState as called first thing by execute: it returns (the call
\* goes on to invoke fn, "running") or throws 'Circuit is OPEN' ("rejected")
checkCircuitState(c) ==
  IF state = OPEN
  THEN IF now - lastStateChange >= recoveryTimeout
       THEN /\ state' = HALF_OPEN
            /\ successes' = 0
            /\ failures' = 0
            /\ cause' = "probe"
            /\ callPc' = [callPc EXCEPT ![c] = "running"]
            /\ UNCHANGED lastStateChange
       ELSE /\ callPc' = [callPc EXCEPT ![c] = "rejected"]
            /\ UNCHANGED <<state, successes, failures, lastStateChange, cause>>
  ELSE /\ callPc' = [callPc EXCEPT ![c] = "running"]
       /\ UNCHANGED <<state, successes, failures, lastStateChange, cause>>

\* execute() up to its await of fn()
Execute(c) ==
  /\ callPc[c] # "running"
  /\ checkCircuitState(c)
  /\ admittedIn' = [admittedIn EXCEPT ![c] = IF callPc'[c] = "running" THEN state' ELSE "none"]
  /\ UNCHANGED <<now, consec>>
  /\ UNCHANGED notCB

\* recordSuccess closing the circuit only above successThreshold (> for >=)
recordSuccess_Late ==
  CASE state = CLOSED ->
         /\ failures' = 0
         /\ UNCHANGED <<state, successes, lastStateChange, cause>>
    [] state = HALF_OPEN ->
         IF successes + 1 > successThreshold
         THEN /\ state' = CLOSED
              /\ successes' = 0
              /\ failures' = 0
              /\ lastStateChange' = now
              /\ cause' = "close"
         ELSE /\ successes' = successes + 1
              /\ UNCHANGED <<state, failures, lastStateChange, cause>>
    [] OTHER -> UNCHANGED <<state, failures, successes, lastStateChange, cause>>

\* recordSuccess: reset the failure count while CLOSED, count the success and
\* close at the threshold while HALF_OPEN, nothing while OPEN
recordSuccess ==
  CASE state = CLOSED ->
         /\ failures' = 0
         /\ UNCHANGED <<state, successes, lastStateChange, cause>>
    [] state = HALF_OPEN ->
         IF successes + 1 >= successThreshold
         THEN /\ state' = CLOSED
              /\ successes' = 0
              /\ failures' = 0
              /\ lastStateChange' = now
              /\ cause' = "close"
         ELSE /\ successes' = successes + 1
              /\ UNCHANGED <<state, failures, lastStateChange, cause>>
    [] OTHER -> UNCHANGED <<state, failures, successes, lastStateChange, cause>>

\* recordFailure opening a CLOSED circuit only above the threshold (> for >=)
recordFailure_LateTrip ==
  CASE state = CLOSED ->
         /\ failures' = failures + 1
         /\ IF failures + 1 > failureThreshold
            THEN /\ state' = OPEN
                 /\ lastStateChange' = now
                 /\ cause' = "trip"
            ELSE UNCHANGED <<state, lastStateChange, cause>>
         /\ UNCHANGED successes
    [] state = HALF_OPEN ->
         /\ state' = OPEN
         /\ failures' = 1
         /\ successes' = 0
         /\ lastStateChange' = now
         /\ cause' = "reopen"
    [] OTHER -> UNCHANGED <<state, failures, successes, lastStateChange, cause>>

\* recordFailure reopening from HALF_OPEN without taking a new transition time
recordFailure_StaleTime ==
  CASE state = CLOSED ->
         /\ failures' = failures + 1
         /\ IF failures + 1 >= failureThreshold
            THEN /\ state' = OPEN
                 /\ lastStateChange' = now
                 /\ cause' = "trip"
            ELSE UNCHANGED <<state, lastStateChange, cause>>
         /\ UNCHANGED successes
    [] state = HALF_OPEN ->
         /\ state' = OPEN
         /\ failures' = 1
         /\ successes' = 0
         /\ cause' = "reopen"
         /\ UNCHANGED lastStateChange
    [] OTHER -> UNCHANGED <<state, failures, successes, lastStateChange, cause>>

\* recordFailure that takes a new transition time when it is called while OPEN
recordFailure_RestampsOpen ==
  CASE state = CLOSED ->
         /\ failures' = failures + 1
         /\ IF failures + 1 >= failureThreshold
            THEN /\ state' = OPEN
                 /\ lastStateChange' = now
                 /\ cause' = "trip"
            ELSE UNCHANGED <<state, lastStateChange, cause>>
         /\ UNCHANGED successes
    [] state = HALF_OPEN ->
         /\ state' = OPEN
         /\ failures' = 1
         /\ successes' = 0
         /\ lastStateChange' = now
         /\ cause' = "reopen"
    [] OTHER ->
         /\ lastStateChange' = now
         /\ UNCHANGED <<state, failures, successes, cause>>

\* recordFailure that reopens from HALF_OPEN without zeroing the successes
recordFailure_KeepsSuccesses ==
  CASE state = CLOSED ->
         /\ failures' = failures + 1
         /\ IF failures + 1 >= failureThreshold
            THEN /\ state' = OPEN
                 /\ lastStateChange' = now
                 /\ cause' = "trip"
            ELSE UNCHANGED <<state, lastStateChange, cause>>
         /\ UNCHANGED successes
    [] state = HALF_OPEN ->
         /\ state' = OPEN
         /\ failures' = 1
         /\ lastStateChange' = now
         /\ cause' = "reopen"
         /\ UNCHANGED successes
    [] OTHER -> UNCHANGED <<state, failures, successes, lastStateChange, cause>>

\* recordFailure: this.failures++ and the threshold test while CLOSED, the
\* immediate return to OPEN while HALF_OPEN, nothing while OPEN
recordFailure ==
  CASE state = CLOSED ->
         /\ failures' = failures + 1
         /\ IF failures + 1 >= failureThreshold
            THEN /\ state' = OPEN
                 /\ lastStateChange' = now
                 /\ cause' = "trip"
            ELSE UNCHANGED <<state, lastStateChange, cause>>
         /\ UNCHANGED successes
    [] state = HALF_OPEN ->
         /\ state' = OPEN
         /\ failures' = 1
         /\ successes' = 0
         /\ lastStateChange' = now
         /\ cause' = "reopen"
    [] OTHER -> UNCHANGED <<state, failures, successes, lastStateChange, cause>>

\* execute() after fn() resolved: recordSuccess, return the result
FnResolves(c) ==
  /\ callPc[c] = "running"
  /\ recordSuccess
  /\ callPc' = [callPc EXCEPT ![c] = "returned"]
  /\ consec' = 0
  /\ UNCHANGED <<now, admittedIn>>
  /\ UNCHANGED notCB

\* execute() after fn() rejected: recordFailure, rethrow
FnRejects(c) ==
  /\ callPc[c] = "running"
  /\ recordFailure
  /\ callPc' = [callPc EXCEPT ![c] = "threw"]
  /\ consec' = IF consec < ConsecCap THEN consec + 1 ELSE consec
  /\ UNCHANGED <<now, admittedIn>>
  /\ UNCHANGED notCB

\* reset()
Reset ==
  /\ state' = CLOSED
  /\ failures' = 0
  /\ successes' = 0
  /\ lastStateChange' = now
  /\ cause' = "reset"
  /\ consec' = 0
  /\ UNCHANGED <<now, callPc, admittedIn>>
  /\ UNCHANGED notCB

\* the clock advances
Tick ==
  /\ now < MaxTime
  /\ now' = now + 1
  /\ UNCHANGED <<state, failures, successes, lastStateChange, callPc, admittedIn,
                 consec, cause>>
  /\ UNCHANGED notCB

CBNext ==
  \/ Tick
  \/ Reset
  \/ \E c \in Calls :
       \/ Execute(c)
       \/ FnResolves(c)
       \/ FnRejects(c)

\* ------------------------------------------------------------------------
\* OperationExecutor (one operation id)
\* ------------------------------------------------------------------------
ExInit ==
  /\ exState = "absent"
  /\ exFailureCount = 0
  /\ exLastFailureTime = 0
  /\ tracker = [total |-> 0, ok |-> 0, failed |-> 0]
  /\ optRetries = 0
  /\ optStrategy = "linear"
  /\ disp = [d \in Disps |->
              [call |-> 0, pc |-> "idle", attempt |-> 0, invocations |-> 0,
               wakeAt |-> 0, start |-> 0, last |-> "none", code |-> "none",
               result |-> [status |-> "pending"]]]
  /\ issued = 0
  /\ exConsec = 0
  /\ exLastFailAt = 0

\* canExecuteOperation: no entry, CLOSED and HALF_OPEN admit; OPEN admits once
\* more than recoveryTimeout has passed since the last failure
canExecuteOperation ==
  CASE exState = "absent" -> TRUE
    [] exState = CLOSED -> TRUE
    [] exState = OPEN -> (now - exLastFailureTime) > exRecoveryTimeout
    [] OTHER -> TRUE

\* recordCircuitBreakerFailure opening only above the threshold (> for >=)
recordCircuitBreakerFailure_LateTrip ==
  /\ exFailureCount' = exFailureCount + 1
  /\ exLastFailureTime' = now
  /\ exState' = IF exFailureCount + 1 > exFailureThreshold THEN OPEN
                ELSE IF exState = "absent" THEN CLOSED ELSE exState

\* recordCircuitBreakerFailure: count the failure, stamp it, open at the threshold
recordCircuitBreakerFailure ==
  /\ exFailureCount' = exFailureCount + 1
  /\ exLastFailureTime' = now
  /\ exState' = IF exFailureCount + 1 >= exFailureThreshold THEN OPEN
                ELSE IF exState = "absent" THEN CLOSED ELSE exState

\* resetCircuitBreaker: close and zero an existing entry
resetCircuitBreaker ==
  /\ exState' = IF exState = "absent" THEN exState ELSE CLOSED
  /\ exFailureCount' = 0
  /\ UNCHANGED exLastFailureTime

\* updateExecutionTracker that counts a failed execution in the total only
updateExecutionTracker_TotalOnly(success) ==
  tracker' = [total |-> tracker.total + 1,
              ok |-> tracker.ok + (IF success THEN 1 ELSE 0),
              failed |-> tracker.failed]

\* updateExecutionTracker (the counters; averageExecutionTime is left out)
updateExecutionTracker(success) ==
  tracker' = [total |-> tracker.total + 1,
              ok |-> tracker.ok + (IF success THEN 1 ELSE 0),
              failed |-> tracker.failed + (IF success THEN 0 ELSE 1)]

\* applyRetryBackoff with the linear wait computed from attempt, not attempt + 1
applyRetryBackoff_OffByOne(strategy, attempt) ==
  CASE strategy = "linear" -> attempt * BackoffBase
    [] strategy = "exponential" -> (2 ^ attempt) * BackoffBase
    [] OTHER -> BackoffBase

\* applyRetryBackoff: the wait before the retry that follows attempt `attempt`
applyRetryBackoff(strategy, attempt) ==
  CASE strategy = "linear" -> (attempt + 1) * BackoffBase
    [] strategy = "exponential" -> (2 ^ attempt) * BackoffBase
    [] OTHER -> BackoffBase

\* a loop that runs one attempt too many
loopContinues_OneMore(attempt, maxRetries) == attempt <= maxRetries + 1

\* the loop condition of executeWithRetry: attempt <= maxRetries
loopContinues(attempt, maxRetries) == attempt <= maxRetries

\* the backoff condition of executeWithRetry: attempt < maxRetries
backoffApplies(attempt, maxRetries) == attempt < maxRetries

\* validateInputs throws when inputs is falsy; validateOutput throws when the
\* result is undefined or null
validateOutput(outcome) == outcome = "value"

\* metadata built by createErrorResult and by the success return of executeWithRetry
Metadata(startTime) ==
  [startTime |-> startTime, endTime |-> now, duration |-> now - startTime]

\* createErrorResult
createErrorResult(code, startTime) ==
  [status |-> "failed", error |-> code, metadata |-> Metadata(startTime)]

\* a caller whose previous call has returned makes call number issued + 1
FreshCall ==
  [call |-> issued + 1, pc |-> "idle", attempt |-> 0, invocations |-> 0, wakeAt |-> 0,
   start |-> now, last |-> "none", code |-> "none", result |-> [status |-> "pending"]]

\* executeOperation up to the first await: circuit check, input validation,
\* first call of operation.execute. The options are the ones the first call
\* passes: every call of a run passes the same ones.
Dispatch(d) ==
  /\ disp[d].pc \in {"idle", "done"}
  /\ issued < MaxDisp
  /\ issued' = issued + 1
  /\ \E retries \in 0..MaxRetries, retryStrategy \in Strategies :
       /\ optRetries' = retries
       /\ optStrategy' = retryStrategy
       /\ issued > 0 => (retries = optRetries /\ retryStrategy = optStrategy)
  /\ \E inputsOk \in BOOLEAN :
       IF ~canExecuteOperation
       THEN disp' = [disp EXCEPT ![d] =
                       [FreshCall EXCEPT !.pc = "done", !.code = "CIRCUIT_OPEN",
                                    !.result = createErrorResult("CIRCUIT_OPEN", now)]]
       ELSE IF ~inputsOk
       THEN disp' = [disp EXCEPT ![d] =
                       [FreshCall EXCEPT !.pc = "done", !.code = "INVALID_INPUT",
                                    !.result = createErrorResult("INVALID_INPUT", now)]]
       ELSE disp' = [disp EXCEPT ![d] =
                       [FreshCall EXCEPT !.pc = "running", !.attempt = 0,
                                         !.invocations = 1]]
  /\ UNCHANGED <<exState, exFailureCount, exLastFailureTime, tracker, exConsec,
                 exLastFailAt, now>>
  /\ UNCHANGED notEx

\* executeWithRetry threw: executeOperation records the failure and returns
\* the EXECUTION_FAILED result
DispatchFails(d, cur) ==
  /\ updateExecutionTracker(FALSE)
  /\ recordCircuitBreakerFailure
  /\ exConsec' = exConsec + 1
  /\ exLastFailAt' = now
  /\ disp' = [disp EXCEPT ![d] =
                [cur EXCEPT !.pc = "done", !.code = "EXECUTION_FAILED",
                            !.result = createErrorResult("EXECUTION_FAILED", cur.start)]]

\* the head of the for loop of executeWithRetry with the loop variable at
\* `attempt`: call operation.execute again, or leave the loop and throw
NextAttempt(d, cur, attempt) ==
  IF loopContinues(attempt, optRetries)
  THEN /\ disp' = [disp EXCEPT ![d] =
                     [cur EXCEPT !.pc = "running", !.attempt = attempt,
                                 !.invocations = cur.invocations + 1]]
       /\ UNCHANGED <<exState, exFailureCount, exLastFailureTime, tracker, exConsec,
                      exLastFailAt>>
  ELSE DispatchFails(d, cur)

\* operation.execute settled: it returned a value, returned undefined/null, or threw
AttemptSettles(d) ==
  /\ disp[d].pc = "running"
  /\ \E outcome \in {"value", "null", "throw"} :
       LET cur == [disp[d] EXCEPT !.last = outcome] IN
       IF outcome # "throw" /\ validateOutput(outcome)
       THEN \* return the COMPLETED result; executeOperation records the success
            /\ updateExecutionTracker(TRUE)
            /\ resetCircuitBreaker
            /\ exConsec' = 0
            /\ UNCHANGED exLastFailAt
            /\ disp' = [disp EXCEPT ![d] =
                          [cur EXCEPT !.pc = "done", !.code = "COMPLETED",
                                      !.result = [status |-> "completed",
                                                  metadata |-> Metadata(cur.start)]]]
       ELSE \* the catch block of the loop
            IF backoffApplies(cur.attempt, optRetries)
            THEN /\ disp' = [disp EXCEPT ![d] =
                               [cur EXCEPT !.pc = "backoff",
                                  !.wakeAt = now + applyRetryBackoff(optStrategy,
                                                                     cur.attempt)]]
                 /\ UNCHANGED <<exState, exFailureCount, exLastFailureTime, tracker,
                                exConsec, exLastFailAt>>
            ELSE NextAttempt(d, cur, cur.attempt + 1)
  /\ UNCHANGED <<now, optRetries, optStrategy, issued>>
  /\ UNCHANGED notEx

\* the setTimeout of applyRetryBackoff fired: attempt++ and the loop goes on
BackoffDone(d) ==
  /\ disp[d].pc = "backoff"
  /\ now >= disp[d].wakeAt
  /\ NextAttempt(d, [disp[d] EXCEPT !.wakeAt = 0], disp[d].attempt + 1)
  /\ UNCHANGED <<now, optRetries, optStrategy, issued>>
  /\ UNCHANGED notEx

\* the clock advances
ExTick ==
  /\ now < ExMaxTime
  /\ now' = now + 1
  /\ UNCHANGED exVars
  /\ UNCHANGED notEx

ExNext ==
  \/ ExTick
  \/ \E d \in Disps :
       \/ Dispatch(d)
       \/ AttemptSettles(d)
       \/ BackoffDone(d)

\* ------------------------------------------------------------------------
\* RateLimiter
\* ------------------------------------------------------------------------
NoEntry == [present |-> FALSE, timestamps |-> <<>>, blockedUntil |-> Unset]
NoHist == [first |-> 0, calls |-> 0]

\* Date.now() is positive, so a blockedUntil that was set is never falsy
LimInit ==
  /\ limitEntries = [id \in Ids |-> NoEntry]
  /\ limNow = 1
  /\ limOp = [op |-> "none", id |-> "none", strategy |-> "none", allowed |-> FALSE]
  /\ limSteps = 0
  /\ hist = [id \in Ids |-> NoHist]
  /\ admits = [id \in Ids |-> <<>>]

\* getOrCreateEntry: the entry of the identifier, a new empty one without it
getOrCreateEntry(id) ==
  IF limitEntries[id].present THEN limitEntries[id]
  ELSE [present |-> TRUE, timestamps |-> <<>>, blockedUntil |-> Unset]

\* pruneOldTimestamps: keep timestamp > Date.now() - windowMs
pruneOldTimestamps(timestamps) ==
  SelectSeq(timestamps, LAMBDA t : t > limNow - windowMs)

\* entry.blockedUntil && entry.blockedUntil > Date.now()
isBlocked(entry) == entry.blockedUntil # Unset /\ entry.blockedUntil > limNow

\* a limiter that lets one request past the cap (> for >=)
isExceeded_Strict(timestamps) == Len(timestamps) > maxRequests

\* isExceeded = entry.timestamps.length >= maxRequests
isExceeded(timestamps) == Len(timestamps) >= maxRequests

\* a block that starts and ends at once
blockEntry_NoDuration(entry) ==
  [entry EXCEPT !.blockedUntil = limNow, !.timestamps = <<>>]

\* blockEntry: blockedUntil = Date.now() + blockDuration, timestamps cleared
blockEntry(entry) ==
  [entry EXCEPT !.blockedUntil = limNow + blockDuration, !.timestamps = <<>>]

\* isAllowed(identifier, strategy)
isAllowed(id, strategy) ==
  /\ limSteps < MaxLimOps
  /\ Len(admits[id]) <= maxRequests
  /\ LET entry == getOrCreateEntry(id)
         pruned == [entry EXCEPT !.timestamps = pruneOldTimestamps(@)]
         res == IF isBlocked(entry)
                  THEN [entry |-> entry, allowed |-> FALSE]
                ELSE IF isExceeded(pruned.timestamps)
                  THEN [entry |-> IF strategy = "block" THEN blockEntry(pruned)
                                  ELSE pruned,
                        allowed |-> FALSE]
                ELSE [entry |-> [pruned EXCEPT !.timestamps = Append(@, limNow)],
                      allowed |-> TRUE]
     IN /\ limitEntries' = [limitEntries EXCEPT ![id] = res.entry]
        /\ limOp' = [op |-> "isAllowed", id |-> id, strategy |-> strategy,
                     allowed |-> res.allowed]
        /\ hist' = [hist EXCEPT ![id] =
                      IF limitEntries[id].present
                        THEN [@ EXCEPT !.calls = @ + 1]
                        ELSE [first |-> limNow, calls |-> 1]]
        /\ admits' = [admits EXCEPT ![id] =
                        IF res.allowed THEN Append(@, limNow) ELSE @]
  /\ limSteps' = limSteps + 1
  /\ UNCHANGED limNow
  /\ UNCHANGED notLim

\* getStatus(identifier): prunes the entry it reads, creates none
getStatus(id) ==
  /\ limSteps < MaxLimOps
  /\ limitEntries' =
       IF limitEntries[id].present
         THEN [limitEntries EXCEPT ![id].timestamps = pruneOldTimestamps(@)]
         ELSE limitEntries
  /\ limOp' = [op |-> "getStatus", id |-> id, strategy |-> "none", allowed |-> FALSE]
  /\ limSteps' = limSteps + 1
  /\ UNCHANGED <<limNow, hist, admits>>
  /\ UNCHANGED notLim

\* reset(identifier): the entry is deleted
reset(id) ==
  /\ limSteps < MaxLimOps
  /\ limitEntries' = [limitEntries EXCEPT ![id] = NoEntry]
  /\ limOp' = [op |-> "reset", id |-> id, strategy |-> "none", allowed |-> FALSE]
  /\ hist' = [hist EXCEPT ![id] = NoHist]
  /\ admits' = [admits EXCEPT ![id] = <<>>]
  /\ limSteps' = limSteps + 1
  /\ UNCHANGED limNow
  /\ UNCHANGED notLim

\* the test of cleanupExpiredEntries on one entry
isExpired(entry) ==
  /\ (entry.blockedUntil = Unset \/ entry.blockedUntil < limNow)
  /\ Len(entry.timestamps) = 0

\* cleanupExpiredEntries, run by the interval timer
cleanupExpiredEntries ==
  /\ limSteps < MaxLimOps
  /\ limitEntries' = [id \in Ids |->
       IF limitEntries[id].present /\ isExpired(limitEntries[id])
         THEN NoEntry ELSE limitEntries[id]]
  /\ hist' = [id \in Ids |->
       IF limitEntries[id].present /\ isExpired(limitEntries[id])
         THEN NoHist ELSE hist[id]]
  /\ limOp' = [op |-> "sweep", id |-> "none", strategy |-> "none", allowed |-> FALSE]
  /\ limSteps' = limSteps + 1
  /\ UNCHANGED <<limNow, admits>>
  /\ UNCHANGED notLim

\* time passes; the history forgets the admissions that left the window
LimTick ==
  /\ limNow < MaxLimTime
  /\ limNow' = limNow + 1
  /\ admits' = [id \in Ids |->
                  SelectSeq(admits[id], LAMBDA t : t > limNow + 1 - windowMs)]
  /\ UNCHANGED <<limitEntries, limOp, limSteps, hist>>
  /\ UNCHANGED notLim

LimNext ==
  \/ LimTick
  \/ cleanupExpiredEntries
  \/ \E id \in Ids :
       \/ \E strategy \in LimStrategies : isAllowed(id, strategy)
       \/ getStatus(id)
       \/ reset(id)

\* ------------------------------------------------------------------------
\* CacheManager
\* ------------------------------------------------------------------------
CacheOpRec(op, key, hit, value, evicted, again) ==
  [op |-> op, key |-> key, hit |-> hit, value |-> value, evicted |-> evicted,
   again |-> again]

CacheInit ==
  /\ cache = <<>>
  /\ cacheNow = 1
  /\ cacheHung = FALSE
  /\ cacheOp = CacheOpRec("none", "none", FALSE, "undefined", <<>>, FALSE)
  /\ cacheSteps = 0
  /\ lastSet = [k \in CacheKeys |-> "none"]
  /\ fnCalls = [x \in FnArgs |-> 0]

\* Map.get(key): the position of the entry of key, 0 without one
KeyIndex(c, k) ==
  IF \E i \in 1..Len(c) : c[i].key = k
  THEN CHOOSE i \in 1..Len(c) : c[i].key = k
  ELSE 0

\* an entry check that still accepts an entry at the instant it expires
isValidEntry_Inclusive(entry) == entry.expiresAt = 0 \/ entry.expiresAt >= cacheNow

\* isValidEntry: !entry.expiresAt || entry.expiresAt > Date.now()
isValidEntry(entry) == entry.expiresAt = 0 \/ entry.expiresAt > cacheNow

\* a search that returns the newest entry
findOldestEntryKey_Newest(c) ==
  IF c = <<>> THEN 0
  ELSE CHOOSE i \in 1..Len(c) :
         /\ \A j \in 1..Len(c) : c[i].createdAt >= c[j].createdAt
         /\ \A j \in 1..(i-1) : c[j].createdAt < c[i].createdAt

\* findOldestEntryKey: the position of the first entry, in iteration order,
\* whose createdAt is the smallest; 0 (undefined) in an empty cache
findOldestEntryKey(c) ==
  IF c = <<>> THEN 0
  ELSE CHOOSE i \in 1..Len(c) :
         /\ \A j \in 1..Len(c) : c[i].createdAt <= c[j].createdAt
         /\ \A j \in 1..(i-1) : c[j].createdAt > c[i].createdAt

\* a limit that is enforced one entry too late (> for >=)
overLimit_Strict(c) == Len(c) > maxEntries

\* the loop condition of enforceMaxEntries: cache.size >= maxEntries
overLimit(c) == Len(c) >= maxEntries

\* enforceMaxEntries: delete the oldest entry while the cache is at its limit.
\* `if (oldestKey)` skips the delete for the key "" (and in an empty cache), and
\* the loop then never ends.
RECURSIVE enforceMaxEntries(_)
enforceMaxEntries(c) ==
  IF ~overLimit(c) THEN [cache |-> c, evicted |-> <<>>, hung |-> FALSE]
  ELSE LET i == findOldestEntryKey(c) IN
       IF i = 0 \/ c[i].key = ""
       THEN [cache |-> c, evicted |-> <<>>, hung |-> TRUE]
       ELSE LET rest == enforceMaxEntries(SpliceOut(c, i)) IN
            [cache |-> rest.cache, evicted |-> <<c[i].key>> \o rest.evicted,
             hung |-> rest.hung]

\* the body of set: enforceMaxEntries, then Map.set of the new entry (an
\* existing key keeps its place in the iteration order)
setResult(c, k, v, ttl, by) ==
  LET e == enforceMaxEntries(c)
      entry == [key |-> k, value |-> v, createdAt |-> cacheNow,
                expiresAt |-> IF ttl # NoTTL THEN cacheNow + ttl
                              ELSE cacheNow + defaultTTL,
                by |-> by]
      i == KeyIndex(e.cache, k)
  IN [cache |-> IF i = 0 THEN Append(e.cache, entry)
                ELSE [e.cache EXCEPT ![i] = entry],
      evicted |-> e.evicted, hung |-> e.hung]

\* the body of get: the value of a valid entry; an invalid entry is deleted
getResult(c, k) ==
  LET i == KeyIndex(c, k) IN
  IF i # 0 /\ isValidEntry(c[i])
  THEN [cache |-> c, hit |-> TRUE, value |-> c[i].value]
  ELSE [cache |-> IF i # 0 THEN SpliceOut(c, i) ELSE c,
        hit |-> FALSE, value |-> "undefined"]

\* the history of the last set, kept for the keys that are in the cache c
Remember(c, k, v) ==
  [q \in CacheKeys |->
     IF KeyIndex(c, q) = 0 THEN "none" ELSE IF q = k THEN v ELSE lastSet[q]]

\* a call can be made: no earlier call is still running
CacheReady == ~cacheHung /\ cacheSteps < MaxCacheOps

\* set(key, value, ttl)
set(k, v, ttl) ==
  /\ CacheReady
  /\ LET s == setResult(cache, k, v, ttl, "user") IN
     IF s.hung
     THEN /\ cacheHung' = TRUE
          /\ cacheOp' = CacheOpRec("hang", k, FALSE, v, <<>>, FALSE)
          /\ UNCHANGED <<cache, lastSet>>
     ELSE /\ cache' = s.cache
          /\ lastSet' = Remember(s.cache, k, v)
          /\ cacheOp' = CacheOpRec("set", k, FALSE, v, s.evicted, FALSE)
          /\ UNCHANGED cacheHung
  /\ cacheSteps' = cacheSteps + 1
  /\ UNCHANGED <<cacheNow, fnCalls>>
  /\ UNCHANGED notCache

\* get(key)
get(k) ==
  /\ CacheReady
  /\ LET g == getResult(cache, k) IN
     /\ cache' = g.cache
     /\ lastSet' = Remember(g.cache, "none", "none")
     /\ cacheOp' = CacheOpRec("get", k, g.hit, g.value, <<>>,
                              cacheOp.op = "get" /\ cacheOp.key = k /\ cacheOp.hit)
  /\ cacheSteps' = cacheSteps + 1
  /\ UNCHANGED <<cacheNow, cacheHung, fnCalls>>
  /\ UNCHANGED notCache

\* has(key): !!entry && isValidEntry(entry)
has(k) ==
  /\ CacheReady
  /\ cacheOp' = CacheOpRec("has", k,
                           KeyIndex(cache, k) # 0 /\ isValidEntry(cache[KeyIndex(cache, k)]),
                           "undefined", <<>>, FALSE)
  /\ cacheSteps' = cacheSteps + 1
  /\ UNCHANGED <<cache, cacheNow, cacheHung, lastSet, fnCalls>>
  /\ UNCHANGED notCache

\* delete(key)
delete(k) ==
  /\ CacheReady
  /\ cache' = SelectSeq(cache, LAMBDA e : e.key # k)
  /\ lastSet' = [lastSet EXCEPT ![k] = "none"]
  /\ cacheOp' = CacheOpRec("delete", k, FALSE, "undefined", <<>>, FALSE)
  /\ cacheSteps' = cacheSteps + 1
  /\ UNCHANGED <<cacheNow, cacheHung, fnCalls>>
  /\ UNCHANGED notCache

\* cleanup(): delete the entries with expiresAt <= now
cleanup ==
  /\ CacheReady
  /\ cache' = SelectSeq(cache, LAMBDA e : ~(e.expiresAt # 0 /\ e.expiresAt <= cacheNow))
  /\ lastSet' = Remember(SelectSeq(cache, LAMBDA e : ~(e.expiresAt # 0 /\ e.expiresAt <= cacheNow)),
                         "none", "none")
  /\ cacheOp' = CacheOpRec("cleanup", "none", FALSE, "undefined", <<>>, FALSE)
  /\ cacheSteps' = cacheSteps + 1
  /\ UNCHANGED <<cacheNow, cacheHung, fnCalls>>
  /\ UNCHANGED notCache

\* JSON.stringify(args) for the argument list [x]: undefined is written as null
stringify(x) ==
  CASE x = "undefined" -> "[null]"
    [] x = "null" -> "[null]"
    [] OTHER -> "[" \o x \o "]"

\* the function that is memoized: x => x, so that it returns undefined for
\* undefined and the falsy null for null
fn(x) == x

\* one call memoize(fn)(x), without a resolver: get, and on undefined call fn
\* and set its result
memoize(x) ==
  /\ CacheReady
  /\ LET key == stringify(x)
         g == getResult(cache, key)
     IN IF g.value # "undefined"
        THEN /\ cache' = g.cache
             /\ cacheOp' = CacheOpRec("memo", x, TRUE, g.value, <<>>, FALSE)
             /\ lastSet' = Remember(g.cache, "none", "none")
             /\ UNCHANGED <<cacheHung, fnCalls>>
        ELSE /\ fnCalls' = [fnCalls EXCEPT ![x] = @ + 1]
             /\ LET result == fn(x)
                    s == setResult(g.cache, key, result, NoTTL, x) IN
                IF s.hung
                THEN /\ cacheHung' = TRUE
                     /\ cache' = g.cache
                     /\ cacheOp' = CacheOpRec("hang", x, FALSE, result, <<>>, FALSE)
                     /\ lastSet' = Remember(g.cache, "none", "none")
                ELSE /\ cache' = s.cache
                     /\ lastSet' = Remember(s.cache, key, result)
                     /\ cacheOp' = CacheOpRec("memo", x, FALSE, result, s.evicted, FALSE)
                     /\ UNCHANGED cacheHung
  /\ cacheSteps' = cacheSteps + 1
  /\ UNCHANGED cacheNow
  /\ UNCHANGED notCache

CacheTick ==
  /\ cacheNow < CacheMaxTime
  /\ cacheNow' = cacheNow + 1
  /\ UNCHANGED <<cache, cacheHung, cacheOp, cacheSteps, lastSet, fnCalls>>
  /\ UNCHANGED notCache

CacheNext ==
  \/ CacheTick
  \/ cleanup
  \/ \E k \in CacheKeys :
       \/ \E v \in CacheValues, ttl \in TTLs : set(k, v, ttl)
       \/ get(k)
       \/ has(k)
       \/ delete(k)
  \/ \E x \in FnArgs : memoize(x)

\* ------------------------------------------------------------------------
\* EventEmitter
\* ------------------------------------------------------------------------
EmInit ==
  /\ emListeners = <<>>
  /\ emStarted = 0
  /\ emInvoked = [l \in Lsn |-> 0]
  /\ emOps = 0
  /\ emLast = [visited |-> <<>>, threw |-> {}, outcome |-> "none"]

\* on(event, listener): Set.add keeps a listener that is already subscribed
on(l) ==
  /\ l \notin Range(emListeners)
  /\ emListeners' = Append(emListeners, l)
  /\ UNCHANGED <<emStarted, emInvoked, emOps, emLast>>
  /\ UNCHANGED notEm

\* off(event, listener)
off(l) ==
  /\ l \in Range(emListeners)
  /\ emListeners' = RemoveFirst(emListeners, l)
  /\ UNCHANGED <<emStarted, emInvoked, emOps, emLast>>
  /\ UNCHANGED notEm

\* removeAllListeners(event)
removeAllListeners ==
  /\ emListeners # <<>>
  /\ emListeners' = <<>>
  /\ UNCHANGED <<emStarted, emInvoked, emOps, emLast>>
  /\ UNCHANGED notEm

\* an emit without the try/catch around the listener: the first listener that
\* throws ends the forEach and the exception leaves emit
emit_NoCatch(ls, throwing) ==
  LET bad == {i \in 1..Len(ls) : ls[i] \in throwing} IN
  IF bad = {}
  THEN [visited |-> ls, threw |-> {}, outcome |-> "returned"]
  ELSE LET first == CHOOSE i \in bad : \A j \in bad : i <= j IN
       [visited |-> SubSeq(ls, 1, first), threw |-> {ls[first]}, outcome |-> "threw"]

\* emit(event, ...args) on the listeners ls, of which those in `throwing` throw:
\* forEach calls every listener inside try/catch
emit(ls, throwing) ==
  [visited |-> ls, threw |-> Range(ls) \cap throwing, outcome |-> "returned"]

\* the head of one attempt of executeWithRetry: emit operation:before-execution,
\* then call operation.execute; an exception leaving emit would skip the call
beforeExecution ==
  /\ emOps < MaxEmOps
  /\ \E throwing \in SUBSET Range(emListeners) :
       LET run == emit(emListeners, throwing) IN
       /\ emLast' = run
       /\ emInvoked' = [l \in Lsn |->
                          IF l \in Range(run.visited) THEN emInvoked[l] + 1
                          ELSE emInvoked[l]]
       /\ emStarted' = IF run.outcome = "returned" THEN emStarted + 1 ELSE emStarted
  /\ emOps' = emOps + 1
  /\ UNCHANGED emListeners
  /\ UNCHANGED notEm

EmNext ==
  \/ beforeExecution
  \/ removeAllListeners
  \/ \E l \in Lsn : on(l) \/ off(l)

\* the state after the objects are constructed
\* ------------------------------------------------------------------------
\* A CircuitBreaker and OperationExecutor's circuit for one key, side by side:
\* every dispatch asks both for admission, and the outcome of a dispatch both
\* admitted is recorded in both at the same time
\* ------------------------------------------------------------------------
PairInit == pair = [cb |-> TRUE, ex |-> TRUE, n |-> 0, phase |-> "idle"]

\* what the paired steps leave alone
notPair == <<poolVars, limVars, cacheVars, emVars, admittedIn, consec, tracker,
             optRetries, optStrategy, disp, issued, exConsec, exLastFailAt>>

\* a dispatch: CircuitBreaker.execute runs checkCircuitState, executeOperation
\* runs canExecuteOperation
PairAdmit ==
  /\ pair.phase = "idle"
  /\ pair.cb = pair.ex
  /\ pair.n < MaxPairs
  /\ checkCircuitState(1)
  /\ pair' = [cb |-> callPc'[1] = "running",
              ex |-> canExecuteOperation,
              n |-> pair.n + 1,
              phase |-> IF callPc'[1] = "running" /\ canExecuteOperation
                        THEN "running" ELSE "idle"]
  /\ UNCHANGED <<now, exState, exFailureCount, exLastFailureTime>>
  /\ UNCHANGED notPair

\* the dispatch succeeded: recordSuccess there, resetCircuitBreaker here
PairSucceeds ==
  /\ pair.phase = "running"
  /\ recordSuccess
  /\ resetCircuitBreaker
  /\ callPc' = [callPc EXCEPT ![1] = "returned"]
  /\ pair' = [pair EXCEPT !.phase = "idle"]
  /\ UNCHANGED now
  /\ UNCHANGED notPair

\* the dispatch failed: recordFailure there, recordCircuitBreakerFailure here
PairFails ==
  /\ pair.phase = "running"
  /\ recordFailure
  /\ recordCircuitBreakerFailure
  /\ callPc' = [callPc EXCEPT ![1] = "threw"]
  /\ pair' = [pair EXCEPT !.phase = "idle"]
  /\ UNCHANGED now
  /\ UNCHANGED notPair

\* the clock both read advances
PairTick ==
  /\ now < MaxTime
  /\ now' = now + 1
  /\ UNCHANGED <<cbNoClock, exVars, pair>>
  /\ UNCHANGED <<poolVars, limVars, cacheVars, emVars>>

PairNext ==
  \/ PairAdmit
  \/ PairSucceeds
  \/ PairFails
  \/ PairTick

Init == PoolInit /\ CBInit /\ ExInit /\ LimInit /\ CacheInit /\ EmInit /\ PairInit

PairSpec == Init /\ [][PairNext]_vars

EmSpec == Init /\ [][EmNext]_vars

CacheSpec == Init /\ [][CacheNext]_vars

LimSpec == Init /\ [][LimNext]_vars

ExSpec == Init /\ [][ExNext]_vars

CBSpec == Init /\ [][CBNext]_vars

PoolSpec == Init /\ [][PoolNext]_vars

PoolReuseSpec == Init /\ [][PoolReuseNext]_vars

PoolCloseSpec == Init /\ [][PoolCloseNext]_vars

\* timers armed by setTimeout fire
PoolFairSpec == PoolSpec /\ \A r \in Reqs : WF_vars(WaitTimeout(r))

\* ------------------------------------------------------------------------
\* ConnectionPool: properties
\* ------------------------------------------------------------------------
\* callers that currently hold connection c as the result of their acquire
Borrowers(c) == {r \in Reqs : pc[r] = "holding" /\ held[r] = c}

Conns == 1..(nextId - 1)

NoDuplicates(s) == \A i, j \in 1..Len(s) : i # j => s[i] # s[j]

\* C1: the pool never holds more than maxConnections resources:
\* |available| + |active| <= maxConnections in every reachable state.
C1_PoolSizeBounded ==
  Len(availableConnections) + Len(activeConnections) <= maxConnections

\* C2: a pooled resource is never held by two parties at once: it is idle in
\* available or borrowed by one caller, never both and never by two callers.
C2_ExclusiveOwnership ==
  \A c \in Conns :
    Cardinality(Borrowers(c)) + (IF c \in Range(availableConnections) THEN 1 ELSE 0) <= 1

\* C3: available and active are disjoint and neither holds a resource twice,
\* when every borrower releases its resource exactly once.
C3_DisjointNoDuplicates ==
  /\ Range(availableConnections) \cap Range(activeConnections) = {}
  /\ NoDuplicates(availableConnections)
  /\ NoDuplicates(activeConnections)

\* C4: an acquire that was queued as a waiter eventually settles, and it
\* settles either by receiving a resource or by the acquisition timeout.
C4_WaiterSettles ==
  /\ \A r \in Reqs : (pc[r] = "waiting") ~> (pc[r] # "waiting")
  /\ [][\A r \in Reqs : (pc[r] = "waiting" /\ pc'[r] # "waiting")
                          => \/ pc'[r] = "timedout" /\ held'[r] = NoConn
                             \/ pc'[r] = "holding" /\ held'[r] # NoConn]_vars

\* a waiter timed out while a waiter queued after it was served by a release
C4_Witness ==
  \E r, q \in Reqs :
    /\ pc[r] = "timedout"
    /\ pc[q] = "holding"
    /\ waitSince[q] > 0

\* C5: a timed-out waiter is out of the pending queue, stays timed out and is
\* never given a resource; the queue holds live waiters only, so a release
\* after the timeout serves the next live waiter.
C5_TimedOutNeverServed ==
  /\ [](\A r \in Reqs : pc[r] = "timedout" =>
           r \notin Range(pendingRequests) /\ held[r] = NoConn)
  /\ [](\A i \in 1..Len(pendingRequests) : pc[pendingRequests[i]] = "waiting")
  /\ [][\A r \in Reqs : pc[r] = "timedout" =>
           pc'[r] = "timedout" /\ held'[r] = NoConn]_vars

\* r gave up first; q, queued behind r, was served by a later release
C5_Witness ==
  \E r, q \in Reqs :
    /\ pc[r] = "timedout"
    /\ pc[q] = "holding"
    /\ waitSince[r] > 0
    /\ waitSince[q] > waitSince[r]

\* C6: FIFO on both sides: an acquire served from available gets the entry that
\* was pushed earliest, and a waiter that is served is the one queued earliest
\* among the waiters that have not timed out.
C6_FifoOrder ==
  [][\A r \in Reqs :
       /\ (pc[r] = "idle" /\ pc'[r] = "holding") =>
             \E i \in 1..Len(availableConnections) :
               /\ availableConnections[i] = held'[r]
               /\ \A j \in 1..Len(availSince) : availSince[i] <= availSince[j]
       /\ (pc[r] = "waiting" /\ pc'[r] = "holding") =>
             \A q \in Reqs : pc[q] = "waiting" => waitSince[r] <= waitSince[q]]_vars

\* the earlier of two waiters holds a resource while the later one still waits
C6_Witness ==
  \E r, q \in Reqs :
    /\ pc[r] = "holding"
    /\ waitSince[r] > 0
    /\ pc[q] = "waiting"
    /\ waitSince[q] > waitSince[r]

\* ------------------------------------------------------------------------
\* CircuitBreaker: properties
\* ------------------------------------------------------------------------
\* the step records the success / the failure of call c
SuccessRecorded(c) == callPc[c] = "running" /\ callPc'[c] = "returned"
FailureRecorded(c) == callPc[c] = "running" /\ callPc'[c] = "threw"
\* the step is the check that execute() makes for call c
CheckMade(c) == callPc[c] # "running" /\ callPc'[c] # callPc[c]

\* C7: a CLOSED circuit opens exactly when the run of consecutive failures
\* reaches failureThreshold, never before; a success recorded while CLOSED
\* sets the failure counter to 0 and leaves the circuit CLOSED.
C7_ClosedTripsAtThreshold ==
  /\ [](state = CLOSED => failures = consec /\ consec < failureThreshold)
  /\ [][state = CLOSED => ((state' = OPEN) <=> (consec' >= failureThreshold))]_vars
  /\ [][\A c \in Calls : (state = CLOSED /\ SuccessRecorded(c)) =>
          (state' = CLOSED /\ failures' = 0)]_vars

\* the circuit was opened by the failure that completed the run
C7_Witness ==
  /\ state = OPEN
  /\ cause = "trip"
  /\ consec = failureThreshold
  /\ failures = failureThreshold

\* C8: while OPEN and before recoveryTimeout has elapsed a check rejects the
\* call without running it and changes nothing; a check at or after
\* recoveryTimeout moves the circuit to HALF_OPEN, zeroes both counters and
\* admits the call.
C8_OpenRejectsThenProbes ==
  [][\A c \in Calls : (state = OPEN /\ CheckMade(c)) =>
        IF now - lastStateChange < recoveryTimeout
        THEN /\ callPc'[c] = "rejected"
             /\ UNCHANGED <<state, failures, successes, lastStateChange>>
        ELSE /\ callPc'[c] = "running"
             /\ state' = HALF_OPEN
             /\ failures' = 0
             /\ successes' = 0]_vars

\* one call was rejected, a later one probed exactly at the recovery time
C8_Witness ==
  /\ state = HALF_OPEN
  /\ now - lastStateChange = recoveryTimeout
  /\ \E c, d \in Calls :
       /\ callPc[c] = "running" /\ admittedIn[c] = HALF_OPEN
       /\ callPc[d] = "rejected"

\* C9: a HALF_OPEN circuit closes exactly when the successes recorded since it
\* became HALF_OPEN reach successThreshold; below that it stays HALF_OPEN, and
\* when it closes both counters are 0.
C9_HalfOpenClosesAtThreshold ==
  /\ [](state = HALF_OPEN => successes < successThreshold)
  /\ [][\A c \in Calls : (state = HALF_OPEN /\ SuccessRecorded(c)) =>
          IF successes + 1 >= successThreshold
          THEN state' = CLOSED /\ failures' = 0 /\ successes' = 0
          ELSE state' = HALF_OPEN /\ successes' = successes + 1]_vars
  /\ [][(state = HALF_OPEN /\ state' = CLOSED /\ cause' # "reset") =>
          \E c \in Calls : SuccessRecorded(c) /\ successes + 1 = successThreshold]_vars

\* the circuit was closed by the success of a probe
C9_Witness ==
  /\ state = CLOSED
  /\ cause = "close"
  /\ failures = 0
  /\ successes = 0
  /\ \E c \in Calls : callPc[c] = "returned" /\ admittedIn[c] = HALF_OPEN

\* C10: a failure recorded while HALF_OPEN, whenever its call was admitted,
\* opens the circuit with failures = 1, successes = 0 and the transition time
\* set to now; the next probe needs a full recoveryTimeout after that.
C10_HalfOpenFailureReopens ==
  /\ [][\A c \in Calls : (state = HALF_OPEN /\ FailureRecorded(c)) =>
          /\ state' = OPEN
          /\ failures' = 1
          /\ successes' = 0
          /\ lastStateChange' = now]_vars
  /\ [][(state = OPEN /\ state' = HALF_OPEN) =>
          now - lastStateChange >= recoveryTimeout]_vars

\* the failure that reopened the circuit came from a call admitted while CLOSED
C10_Witness ==
  /\ state = OPEN
  /\ cause = "reopen"
  /\ failures = 1
  /\ lastStateChange >= recoveryTimeout
  /\ \E c \in Calls : callPc[c] = "threw" /\ admittedIn[c] = CLOSED

Issued(d) == issued' = issued + 1 /\ disp'[d].call = issued + 1
\* the step belongs to the call caller d has in progress
SameCall(d) == disp'[d].call = disp[d].call
\* the step calls operation.execute once more for caller d
Invoked(d) == SameCall(d) /\ disp'[d].invocations > disp[d].invocations

\* C12: once failureThreshold consecutive dispatches have failed, a dispatch
\* issued before recoveryTimeout has passed since the last of them returns
\* CIRCUIT_OPEN at once, never calls operation.execute and leaves the circuit
\* entry and the metrics as they were.
C12_OpenCircuitFailsFast ==
  [][\A d \in Disps :
       (/\ Issued(d)
        /\ exConsec >= exFailureThreshold
        /\ now - exLastFailAt < exRecoveryTimeout) =>
          /\ disp'[d].pc = "done"
          /\ disp'[d].code = "CIRCUIT_OPEN"
          /\ disp'[d].invocations = 0
          /\ UNCHANGED <<exState, exFailureCount, exLastFailureTime, tracker>>]_vars

\* a dispatch was refused right after the run of failures
C12_Witness ==
  /\ exConsec >= exFailureThreshold
  /\ now - exLastFailAt < exRecoveryTimeout
  /\ \E d \in Disps : disp[d].code = "CIRCUIT_OPEN" /\ disp[d].invocations = 0

\* C13: one dispatch calls operation.execute at most retries+1 times, exactly
\* retries+1 times when it ends in EXECUTION_FAILED; a further call is made only
\* from the backoff that followed a failed attempt, once the backoff has
\* elapsed, and never after an attempt that succeeded.
C13_AttemptsBoundedSequential ==
  /\ [](\A d \in Disps : disp[d].invocations <= optRetries + 1)
  /\ [](\A d \in Disps :
          disp[d].code = "EXECUTION_FAILED" => disp[d].invocations = optRetries + 1)
  /\ [][\A d \in Disps : Invoked(d) =>
          /\ disp'[d].invocations = disp[d].invocations + 1
          /\ disp[d].pc = "backoff"
          /\ now >= disp[d].wakeAt
          /\ disp[d].last # "value"]_vars
  /\ [][\A d \in Disps : (SameCall(d) /\ disp[d].last = "value") =>
          disp'[d].invocations = disp[d].invocations]_vars

\* every attempt threw and the budget was used up
C13_Witness ==
  /\ optRetries = MaxRetries
  /\ \E d \in Disps :
       /\ disp[d].code = "EXECUTION_FAILED"
       /\ disp[d].last = "throw"
       /\ disp[d].invocations = MaxRetries + 1

\* C14: validation failures are terminal: a dispatch refused for invalid input
\* never called operation.execute, and an attempt whose output fails
\* validation ends the dispatch with a failure, whatever retries remain.
C14_ValidationTerminal ==
  /\ [](\A d \in Disps : disp[d].code = "INVALID_INPUT" => disp[d].invocations = 0)
  /\ [][\A d \in Disps :
          (/\ disp[d].pc = "running"
           /\ SameCall(d)
           /\ disp'[d] # disp[d]
           /\ disp'[d].last = "null") =>
             /\ disp'[d].pc = "done"
             /\ disp'[d].code # "COMPLETED"]_vars

\* the wait the claim gives for the retry after attempt i
ClaimedDelay(strategy, i) ==
  IF strategy = "linear" THEN (i + 1) * BackoffBase ELSE BackoffBase * (2 ^ i)

\* sum of the claimed waits after attempts 0 .. k-1
RECURSIVE ClaimedTotal(_, _)
ClaimedTotal(strategy, k) ==
  IF k = 0 THEN 0 ELSE ClaimedTotal(strategy, k - 1) + ClaimedDelay(strategy, k - 1)

\* C15: a backoff is taken before each retry and never after the last attempt;
\* after failed attempt i it lasts (i+1)*base (linear) or base*2^i (exponential);
\* a dispatch that succeeds at attempt k has lasted at least the sum of the
\* k backoffs before it.
C15_BackoffSchedule ==
  /\ [](\A d \in Disps : disp[d].pc = "backoff" => disp[d].attempt < optRetries)
  /\ [][\A d \in Disps :
          (disp[d].pc = "running" /\ disp'[d].pc = "backoff"
             /\ optStrategy \in {"linear", "exponential"}) =>
               disp'[d].wakeAt - now = ClaimedDelay(optStrategy, disp[d].attempt)]_vars
  /\ [][\A d \in Disps : (Invoked(d) /\ optStrategy \in {"linear", "exponential"}) =>
          disp[d].pc = "backoff" /\ now >= disp[d].wakeAt]_vars
  /\ [](\A d \in Disps :
          (disp[d].code = "COMPLETED" /\ optStrategy \in {"linear", "exponential"}) =>
             disp[d].result.metadata.duration >= ClaimedTotal(optStrategy, disp[d].attempt))

\* retries = MaxRetries, exponential: every retry was used and the last attempt succeeded
C15_Witness ==
  /\ optStrategy = "exponential"
  /\ optRetries = MaxRetries
  /\ \E d \in Disps :
       /\ disp[d].code = "COMPLETED"
       /\ disp[d].attempt = MaxRetries
       /\ disp[d].result.metadata.duration >= ClaimedTotal("exponential", MaxRetries)

\* the attempt count a result carries, -1 when it carries none
ReportedAttempts(res) ==
  IF "attempts" \in DOMAIN res THEN res.attempts
  ELSE IF "attempts" \in DOMAIN res.metadata THEN res.metadata.attempts
  ELSE -1

\* C16: the result of a dispatch reports the attempts made: retries+1 and the
\* elapsed time on an EXECUTION_FAILED result, and the attempts of a success
\* (the k retries before it, plus one).
C16_ResultReportsAttempts ==
  \A d \in Disps :
    /\ disp[d].code = "EXECUTION_FAILED" =>
         /\ ReportedAttempts(disp[d].result) = optRetries + 1
         /\ "duration" \in DOMAIN disp[d].result.metadata
    /\ disp[d].code = "COMPLETED" =>
         ReportedAttempts(disp[d].result) = disp[d].attempt + 1

\* ------------------------------------------------------------------------
\* RateLimiter: properties
\* ------------------------------------------------------------------------
\* the step is a call isAllowed(id, _)
LimCall(id) ==
  limSteps' = limSteps + 1 /\ limOp'.op = "isAllowed" /\ limOp'.id = id

\* C17: maxRequests is an inclusive cap: counting the isAllowed calls made on an
\* identifier since it had no entry, while they fall within one window the
\* first maxRequests of them return true and the next one returns false,
\* whatever strategy each call names.
C17_InclusiveCap ==
  [][\A id \in Ids : LimCall(id) =>
       LET n == hist[id].calls
           within == n = 0 \/ limNow - hist[id].first < windowMs
       IN /\ (n < maxRequests /\ within) => limOp'.allowed
          /\ (n = maxRequests /\ within) => ~limOp'.allowed]_vars

\* call maxRequests + 1 of one window was made with strategy QUEUE and refused
C17_Witness ==
  /\ limOp.op = "isAllowed"
  /\ limOp.strategy = "queue"
  /\ ~limOp.allowed
  /\ limOp.id \in Ids
  /\ \E id \in Ids :
       /\ id = limOp.id
       /\ hist[id].calls = maxRequests + 1
       /\ limNow - hist[id].first < windowMs

\* C18: for every identifier and every strategy, no window of windowMs
\* milliseconds holds more than maxRequests admitted calls.
C18_WindowCap ==
  \A id \in Ids : Len(admits[id]) <= maxRequests

\* the timestamps of an entry that are inside the window now
InWindow(entry) ==
  Cardinality({i \in DOMAIN entry.timestamps : entry.timestamps[i] > limNow - windowMs})

\* C19: with strategy BLOCK the call that finds the identifier at its cap is
\* refused, sets blockedUntil = now + blockDuration and clears the timestamps;
\* a call made while blockedUntil is in the future is refused and changes
\* nothing of the entry; once blockedUntil has passed a call is admitted again
\* (unless the identifier is at its cap once more).
C19_BlockLifecycle ==
  [][\A id \in Ids : LimCall(id) =>
       LET e == limitEntries[id]
           after == limitEntries'[id]
           blocked == e.present /\ e.blockedUntil # Unset /\ e.blockedUntil > limNow
           atCap == e.present /\ ~blocked /\ InWindow(e) >= maxRequests
       IN /\ (atCap /\ limOp'.strategy = "block") =>
               /\ ~limOp'.allowed
               /\ after.blockedUntil = limNow + blockDuration
               /\ after.timestamps = <<>>
          /\ blocked => (~limOp'.allowed /\ after = e)
          /\ (e.present /\ e.blockedUntil # Unset /\ e.blockedUntil <= limNow /\ ~atCap)
               => limOp'.allowed]_vars

\* a call was admitted after the block of its identifier had ended
C19_Witness ==
  /\ limOp.op = "isAllowed"
  /\ limOp.allowed
  /\ \E id \in Ids :
       /\ id = limOp.id
       /\ limitEntries[id].blockedUntil # Unset
       /\ limitEntries[id].blockedUntil <= limNow

\* C20: a sweep removes every identifier that has no timestamps and no active
\* block, removes no identifier that has an active block or a recorded
\* timestamp, and leaves the entries it keeps unchanged.
C20_SweepExact ==
  [][(limSteps' = limSteps + 1 /\ limOp'.op = "sweep") =>
       \A id \in Ids : limitEntries[id].present =>
         LET e == limitEntries[id]
             active == e.blockedUntil # Unset /\ e.blockedUntil > limNow
         IN IF Len(e.timestamps) = 0 /\ ~active
            THEN ~limitEntries'[id].present
            ELSE limitEntries'[id] = e]_vars

\* ------------------------------------------------------------------------
\* ConnectionPool: atomicity, ownership and the minimum size
\* ------------------------------------------------------------------------
\* C27: the pool-state mutation of one acquire or one release is atomic: while
\* a caller is between the capacity check and the registration of the
\* connection it constructs, or between the removal of its connection from
\* active and the placement, hand-off or discard, the only pool step that can
\* run is that caller's own continuation.
C27_MutationAtomic ==
  [][\A r \in Reqs :
       pc[r] \in {"creating", "validating"} => pc'[r] # pc[r]]_vars

\* C28: every connection in activeConnections is borrowed by a caller that
\* acquired it and has not released it, and the connections created by the
\* initial fill enter availableConnections.
C28_ActiveIsBorrowed ==
  /\ [](\A i \in 1..Len(activeConnections) :
          \E r \in Reqs : pc[r] = "holding" /\ held[r] = activeConnections[i])
  /\ [][(fillPending' < fillPending /\ nextId' # nextId) =>
          nextId \in Range(availableConnections')]_vars

\* C29: once the initial fill has completed, available and active together
\* hold at least minConnections connections in every state, also after
\* releases that discard an invalid connection and after idle cleanup.
C29_MinimumKept ==
  (fillPending = 0 /\ ~fillFailed) =>
     Len(availableConnections) + Len(activeConnections) >= minConnections

\* the fill has completed, a release has discarded an invalid connection and
\* the pool is at its minimum
C29_Witness ==
  /\ fillPending = 0
  /\ ~fillFailed
  /\ \E r \in Reqs : pc[r] = "released" /\ closed # {}
  /\ Len(availableConnections) + Len(activeConnections) = minConnections

\* the step is the end of a release whose connection was found invalid
InvalidRelease(r) ==
  /\ pc[r] = "validating"
  /\ pc'[r] # "validating"
  /\ availableConnections' = availableConnections

\* C30: a release whose validity check returns false or throws closes the
\* connection, leaves it in neither availableConnections nor
\* activeConnections, hands it to no waiter and completes without an error
\* for the releasing caller.
C30_InvalidDiscarded ==
  [][\A r \in Reqs : InvalidRelease(r) =>
       /\ held[r] \in closed'
       /\ held[r] \notin Range(availableConnections')
       /\ held[r] \notin Range(activeConnections')
       /\ \A w \in Reqs \ {r} : held'[w] = held[w]
       /\ pc'[r] = "released"]_vars

\* ------------------------------------------------------------------------
\* CacheManager: properties
\* ------------------------------------------------------------------------
\* the step is a call of the cache that returned, of kind op
CacheCall(op) == cacheSteps' = cacheSteps + 1 /\ cacheOp'.op = op

\* the step is a set, made directly or by the memoized function, that returned
SetReturned == CacheCall("set") \/ (CacheCall("memo") /\ ~cacheOp'.hit)

\* the entry of key k in the cache c has expired
Expired(c, k) ==
  \E i \in 1..Len(c) :
    c[i].key = k /\ c[i].expiresAt # 0 /\ c[i].expiresAt <= cacheNow

\* the cache as the set of this step found it: the memoized function's get has
\* already removed an expired entry of its key
Found ==
  IF cacheOp'.op = "memo"
  THEN SelectSeq(cache, LAMBDA e : ~(e.key = stringify(cacheOp'.key) /\ Expired(cache, e.key)))
  ELSE cache

\* C21: for maxEntries >= 1 the cache never holds more than maxEntries
\* entries after a set returns: set evicts before it inserts, until the size
\* is below maxEntries.
C21_SizeBounded ==
  /\ [](Len(cache) <= maxEntries)
  /\ [][SetReturned =>
          /\ Len(cache') - 1 <= Len(Found) - Len(cacheOp'.evicted)
          /\ Len(Found) >= maxEntries => Len(cacheOp'.evicted) > 0
          /\ Len(Found) - Len(cacheOp'.evicted) < maxEntries]_vars

\* a set on a full cache evicted an entry and left the cache full
C21_Witness ==
  /\ cacheOp.op = "set"
  /\ Len(cacheOp.evicted) > 0
  /\ Len(cache) = maxEntries

\* the entries of c without the first j evicted keys
RECURSIVE Without(_, _, _)
Without(c, evicted, j) ==
  IF j = 0 THEN c
  ELSE SelectSeq(Without(c, evicted, j - 1), LAMBDA e : e.key # evicted[j])

\* C22: an entry that set evicts has the smallest createdAt of the entries
\* present when it is removed; get and has change no createdAt and no order
\* of the entries they leave in the cache, so the entry evicted next among
\* them is the same (creation order, not access order).
C22_EvictsOldestCreated ==
  /\ [][SetReturned =>
          \A j \in 1..Len(cacheOp'.evicted) :
            LET present == Without(Found, cacheOp'.evicted, j - 1) IN
            \E i \in 1..Len(present) :
              /\ present[i].key = cacheOp'.evicted[j]
              /\ \A q \in 1..Len(present) :
                   present[i].createdAt <= present[q].createdAt]_vars
  /\ [][(CacheCall("get") \/ CacheCall("has")) =>
          cache' = SelectSeq(cache, LAMBDA e : KeyIndex(cache', e.key) # 0)]_vars

\* the evicted entry was older than one that stayed, and the entry that stayed
\* had been read before
C22_Witness ==
  /\ cacheOp.op = "set"
  /\ Len(cacheOp.evicted) = 1
  /\ \E i \in 1..Len(cache) :
       cache[i].key # cacheOp.key /\ cache[i].createdAt < cacheNow

\* C23: get(k) returns a value only from an entry whose expiresAt is unset or
\* strictly greater than now; on an unexpired key it returns the value last
\* set for k and leaves the cache, expiresAt and createdAt included, as it was.
C23_GetOnlyUnexpired ==
  [][\A k \in CacheKeys : (CacheCall("get") /\ cacheOp'.key = k) =>
       IF KeyIndex(cache, k) # 0 /\ ~Expired(cache, k)
       THEN /\ cacheOp'.hit
            /\ cacheOp'.value = lastSet[k]
            /\ cache' = cache
       ELSE ~cacheOp'.hit]_vars

\* the same unexpired key was read twice in a row
C23_Witness ==
  /\ cacheOp.op = "get"
  /\ cacheOp.hit
  /\ cacheOp.again
  /\ cacheOp.value \in CacheValues

\* C24: get(k) and has(k) on an entry whose expiresAt has passed both report
\* the key as missing and remove the entry: the size of the cache drops by one.
C24_ExpiredRemovedOnRead ==
  [][\A k \in CacheKeys :
       ((CacheCall("get") \/ CacheCall("has")) /\ cacheOp'.key = k /\ Expired(cache, k)) =>
          /\ ~cacheOp'.hit
          /\ KeyIndex(cache', k) = 0
          /\ Len(cache') = Len(cache) - 1]_vars

\* C25: when memoize(fn)(x) is called and the entry an earlier call with x
\* stored is still in the cache and unexpired, fn is not invoked again and the
\* call returns the value the earlier call returned, whatever that value is.
C25_MemoInvokesOnce ==
  [][\A x \in FnArgs :
       (/\ cacheSteps' = cacheSteps + 1
        /\ cacheOp'.op \in {"memo", "hang"}
        /\ cacheOp'.key = x
        /\ \E i \in 1..Len(cache) :
             /\ cache[i].key = stringify(x)
             /\ cache[i].by = x
             /\ ~Expired(cache, stringify(x))) =>
          /\ fnCalls'[x] = fnCalls[x]
          /\ cacheOp'.value = fn(x)]_vars

\* ------------------------------------------------------------------------
\* EventEmitter: properties
\* ------------------------------------------------------------------------
\* C26: a subscriber that throws during emit never aborts the operation that
\* emitted the event: emit returns normally, every subscriber of the event is
\* invoked, those after the one that threw included, and the emitting
\* operation goes on to its next step.
C26_ThrowingSubscriberContained ==
  [][emOps' = emOps + 1 =>
       /\ emLast'.outcome = "returned"
       /\ \A l \in Lsn :
            emInvoked'[l] = emInvoked[l] + (IF l \in Range(emListeners) THEN 1 ELSE 0)
       /\ emStarted' = emStarted + 1]_vars

\* the first of several subscribers threw, and the attempt still went on
C26_Witness ==
  /\ emLast.outcome = "returned"
  /\ Len(emLast.visited) >= 2
  /\ emLast.visited[1] \in emLast.threw
  /\ emOps > 0
  /\ emStarted = emOps


\* ------------------------------------------------------------------------
\* ConnectionPool: close() and the idle cleanup
\* ------------------------------------------------------------------------
\* the step in which the call of close() returns
CloseCompletes == closing # "done" /\ closing' = "done"

\* connections a caller has been given and has not finished releasing
CheckedOut == {held[r] : r \in Reqs} \ {NoConn}

\* C31: when close() completes, availableConnections and activeConnections
\* are empty and every connection that was in one of the lists or checked
\* out by a caller has had close() called on it, also when a release or a
\* construction was in flight when close() was called.
C31_CloseDrains ==
  [][CloseCompletes =>
       /\ availableConnections' = <<>>
       /\ activeConnections' = <<>>
       /\ Range(availableConnections) \cup Range(activeConnections) \cup CheckedOut
            \subseteq closed']_vars


\* a step of cleanupIdleConnections: the interval firing or a run resuming
CleanupStep ==
  /\ pc' = pc
  /\ fillPending' = fillPending
  /\ closing' = closing
  /\ <<cleaning, availableConnections>>' # <<cleaning, availableConnections>>

\* C32: every step of an idle-cleanup run pops and closes the last
\* connection of availableConnections while there are more than
\* minConnections of them and does nothing otherwise, so that a run ends only
\* with at most minConnections left; the connection it closes is not in
\* activeConnections; activeConnections and pendingRequests are left as
\* they were.
C32_CleanupFrame ==
  [][CleanupStep =>
       /\ IF Len(availableConnections) > minConnections
          THEN /\ availableConnections' = PopLast(availableConnections)
               /\ closed' = closed \cup {availableConnections[Len(availableConnections)]}
               /\ availableConnections[Len(availableConnections)]
                    \notin Range(activeConnections)
               /\ cleaning' >= cleaning
          ELSE /\ availableConnections' = availableConnections
               /\ closed' = closed
       /\ cleaning' < cleaning => Len(availableConnections') <= minConnections
       /\ activeConnections' = activeConnections
       /\ pendingRequests' = pendingRequests]_vars


\* no connection is on its way into the pool: no construction and no
\* release is in flight
Settled ==
  /\ fillPending = 0
  /\ \A r \in Reqs : pc[r] \notin {"creating", "validating"}

\* C38: a waiter is not left to time out while the pool has free capacity:
\* once a release has discarded an invalid connection, so that fewer than
\* maxConnections are left and nothing is in flight, the longest-waiting
\* waiter is served rather than rejected by its timer.
C38_WaiterServedOnDiscard ==
  [][\A w \in Reqs :
       (pc[w] = "waiting" /\ pc'[w] = "timedout" /\ pendingRequests # <<>>
          /\ w = Head(pendingRequests))
       => ~(canCreateNewConnection /\ Settled)]_vars


\* ------------------------------------------------------------------------
\* OperationExecutor: what a dispatch records
\* ------------------------------------------------------------------------
\* the step in which the call of caller d returns its result
Ends(d) == disp'[d].pc = "done" /\ (disp[d].pc # "done" \/ Issued(d))

\* C34: a dispatch that passed the circuit check and input validation records
\* exactly one outcome, in the step in which it returns and whatever the
\* number of attempts: one success (the circuit entry is closed and zeroed)
\* or one failure (counted and stamped) and one update of the metrics, so
\* that totalExecutions = successfulExecutions + failedExecutions in every
\* state; a dispatch refused by the circuit or by input validation, and every
\* other step, records nothing.
C34_OneOutcomePerDispatch ==
  /\ [](tracker.total = tracker.ok + tracker.failed)
  /\ [][\A d \in Disps : Ends(d) =>
          CASE disp'[d].code \in {"CIRCUIT_OPEN", "INVALID_INPUT"} ->
                 UNCHANGED <<exState, exFailureCount, exLastFailureTime, tracker>>
            [] disp'[d].code = "COMPLETED" ->
                 /\ tracker' = [tracker EXCEPT !.total = @ + 1, !.ok = @ + 1]
                 /\ exFailureCount' = 0
                 /\ exState' \in {"absent", CLOSED}
            [] OTHER ->
                 /\ tracker' = [tracker EXCEPT !.total = @ + 1, !.failed = @ + 1]
                 /\ exFailureCount' = exFailureCount + 1
                 /\ exLastFailureTime' = now]_vars
  /\ [][(\A d \in Disps : ~Ends(d)) =>
          UNCHANGED <<exState, exFailureCount, exLastFailureTime, tracker>>]_vars

\* a dispatch that used every attempt, a dispatch that succeeded on a retry and
\* a refused dispatch have been recorded as one failure and one success
C34_Witness ==
  /\ issued = 3
  /\ tracker = [total |-> 2, ok |-> 1, failed |-> 1]
  /\ optRetries >= 1
  /\ \E d \in Disps :
       /\ disp[d].code = "COMPLETED"
       /\ disp[d].invocations >= 2


\* C33: on every dispatch OperationExecutor's circuit for the key gives the
\* verdict a CircuitBreaker with the same failureThreshold and
\* recoveryTimeout gives, both having been fed the same outcomes at the same
\* times.
C33_SameAdmission == pair.cb = pair.ex


\* ------------------------------------------------------------------------
\* CircuitBreaker: the OPEN state and the counters
\* ------------------------------------------------------------------------
\* the step records the outcome of a call: fn() resolved or rejected
OutcomeRecorded ==
  \E c \in Calls : callPc[c] = "running" /\ callPc'[c] \in {"returned", "threw"}

\* C36: an outcome recorded while the circuit is OPEN leaves state, failures,
\* successes and lastStateChange as they were; the circuit leaves OPEN only
\* through the timed check of an execute call (to HALF_OPEN, once
\* recoveryTimeout has passed) or through reset().
C36_OpenIgnoresOutcomes ==
  /\ [][(state = OPEN /\ OutcomeRecorded) =>
          UNCHANGED <<state, failures, successes, lastStateChange>>]_vars
  /\ [][(state = OPEN /\ state' # OPEN) =>
          \/ /\ state' = HALF_OPEN
             /\ now - lastStateChange >= recoveryTimeout
             /\ \E c \in Calls : callPc[c] # "running" /\ callPc'[c] = "running"
          \/ /\ state' = CLOSED
             /\ cause' = "reset"
             /\ callPc' = callPc]_vars

\* a call admitted before the circuit opened has resolved while it was OPEN
C36_Witness ==
  /\ state = OPEN
  /\ consec = 0
  /\ \E c \in Calls : callPc[c] = "returned" /\ admittedIn[c] = CLOSED

\* C37: CLOSED implies failures < failureThreshold and successes = 0;
\* HALF_OPEN implies failures = 0 and successes < successThreshold; OPEN
\* implies successes = 0 and failures >= 1, whatever the interleaving of
\* concurrent execute calls and reset.
C37_CountersMatchState ==
  /\ state = CLOSED => (failures < failureThreshold /\ successes = 0)
  /\ state = HALF_OPEN => (failures = 0 /\ successes < successThreshold)
  /\ state = OPEN => (successes = 0 /\ failures >= 1)

\* a probe has succeeded while another call, admitted earlier, is still running
C37_Witness ==
  /\ state = HALF_OPEN
  /\ successes = successThreshold - 1
  /\ \E c, d \in Calls :
       /\ callPc[c] = "returned"
       /\ callPc[d] = "running"
       /\ admittedIn[d] # HALF_OPEN


\* ------------------------------------------------------------------------
\* CacheManager: termination of set and replacement of a value
\* ------------------------------------------------------------------------
\* C35: set terminates for every key, the empty string included: every
\* iteration of the loop of enforceMaxEntries removes an entry, so that no
\* call of set is left spinning in it.
C35_SetTerminates == ~cacheHung

\* the keys of the entries of the cache c
Keys(c) == {c[i].key : i \in 1..Len(c)}

\* C40: a set on a key that is in the cache removes no other key: the set of
\* cached keys is the same after the call, also when the cache holds
\* maxEntries entries.
C40_ReplaceKeepsKeys ==
  [][(CacheCall("set") /\ cacheOp'.key \in Keys(cache)) =>
       Keys(cache') = Keys(cache)]_vars


\* ------------------------------------------------------------------------
\* RateLimiter: identifiers that have gone idle
\* ------------------------------------------------------------------------
\* the entry has nothing left that counts: every timestamp has left the
\* window and a block, if there was one, is over
GoneIdle(entry) ==
  /\ pruneOldTimestamps(entry.timestamps) = <<>>
  /\ (entry.blockedUntil = Unset \/ entry.blockedUntil < limNow)

\* C39: the periodic sweep removes an identifier once all its timestamps
\* have left the window and any block has expired, without a further
\* isAllowed or getStatus call on it: a sweep leaves no such identifier in
\* the entry map.
C39_IdleSwept ==
  [][(limSteps' = limSteps + 1 /\ limOp'.op = "sweep") =>
       \A id \in Ids :
         (limitEntries[id].present /\ GoneIdle(limitEntries[id])) =>
           ~limitEntries'[id].present]_vars

====
